---------------------------- MODULE Spec2Model ----------------------------
(***************************************************************************)
(* Model of the webhook dispatch client of src/src/index.ts:               *)
(* WebhookClient (registry `hooks`, observer list `internalEvent`,         *)
(* trigger / add / $onDone / getWebhooks / post) and the signature         *)
(* helpers getSignature / verifySignature.                                 *)
(*                                                                         *)
(* Conventions.                                                            *)
(*  - An optional JavaScript value is a sequence of length 0 (undefined)   *)
(*    or 1 (the value).                                                    *)
(*  - Strings are TLA+ strings; JSON.stringify builds the real JSON text.  *)
(*  - uuidv4() is a generator of fresh values (a counter), Date.now() is   *)
(*    a clock that never goes back and is read once per delivery.          *)
(*  - crypto's HMAC-SHA256 hex digest is an opaque injective function of   *)
(*    (secret, body).                                                      *)
(*  - A promise is a status "pending" | "fulfilled" | "rejected"; the      *)
(*    transport (node-fetch) and the observers' returned promises are      *)
(*    settled by the environment.  The resume of post after `await fetch`  *)
(*    (up to its next await), its resume after `await Promise.all(...)`    *)
(*    and the settlement of the promise trigger returned are separate      *)
(*    jobs: other callbacks may run between them.                          *)
(*  - A rejected promise nobody handles ends the process, or not,          *)
(*    depending on how the process treats unhandled rejections: a promise  *)
(*    an observer returned that post never passed to Promise.all, and the  *)
(*    promise trigger returned when the caller dropped it.  The end of     *)
(*    the process is a step of its own, after the rejection and the jobs   *)
(*    that were queued.                                                    *)
(***************************************************************************)
EXTENDS Integers, Sequences, FiniteSets, TLC

\* ------------------------------------------------------------------ bounds
MaxOps == 3          \* calls of the public methods (trigger, add, $onDone)
MaxCalls == MaxOps - 1   \* of which trigger calls
MaxFairHooks == 1    \* initial hooks under the specification with fairness
MaxFairOps == 4      \* calls of the public methods under that specification
MaxTwoHooks == 1     \* initial hooks under the specification of two objects
MaxTicks == 1        \* milliseconds the clock advances by
MaxFetches == 3      \* calls of fetch

\* ------------------------------------------------------------ input domains
Undefined == <<>>
Some(x) == <<x>>
IsDefined(o) == Len(o) > 0

EventTypes == {"did_something", "something_else"}
Urls == {"https://myhook.com", "https://localhost/webhook"}
\* `events` of a hook: undefined, or an array of event types
EventFilters == {Undefined, Some(<<"did_something">>)}
Hooks == [url : Urls, events : EventFilters]
\* `data` of trigger: undefined, or a JSON-serializable object
DataValues == {Undefined, Some([name |-> "John Doe"])}
\* what the transport resolves to: a Response, whatever its status
Responses == {[status |-> 200], [status |-> 500]}
\* observers: one that returns undefined, one that returns a promise, one that throws
Callbacks == {"cbVoid", "cbAsync", "cbThrow"}

\* constructor arguments (WebhooksProps)
PropsSet ==
  { [api_version |-> "2020-08-27", secret |-> "this-is-a-secret",
     hooks |-> Undefined, mode |-> Undefined, name |-> Undefined],
    [api_version |-> "2020-08-27", secret |-> "s3cr3t",
     hooks |-> Some(<< [url |-> "https://localhost/webhook",
                        events |-> Some(<<"did_something">>)] >>),
     mode |-> Some("production"), name |-> Some("EatingDots")],
    [api_version |-> "2022-01-01", secret |-> "this-is-a-secret",
     hooks |-> Some(<< [url |-> "https://myhook.com", events |-> Undefined],
                       [url |-> "https://myhook.com",
                        events |-> Some(<<"did_something">>)] >>),
     mode |-> Some("sandbox"), name |-> Some("")] }

\* the values of Date.now(): milliseconds, from the time of construction on
Times == 1000..(1000 + MaxTicks)

VARIABLES
  props,          \* the constructor's argument (never changes; kept to state claims)
  api_version, hooks, secret, mode, name, internalEvent,   \* the object's fields
  uuidCount,      \* uuidv4(): number of values generated so far
  fetchCalls,     \* the calls made to fetch(url, options), in call order
  calls,          \* the trigger calls made, each with its post() activations
  clock,          \* Date.now(): the value last read
  exited,         \* the process has ended (an unhandled rejection)
  limit,          \* the calls of the public methods the caller makes at most
  other           \* the other WebhookClient objects built with the same hooks
                  \* (none or one): whether `hooks` was the very array given
                  \* to this one, its own array otherwise, the adds made on it

vars == <<props, api_version, hooks, secret, mode, name, internalEvent,
          uuidCount, fetchCalls, calls, clock, exited, limit, other>>


\* ------------------------------------------------------- stateless helpers
\* crypto.createHmac('sha256', secret).update(body).digest('hex')
getSignature(sec, body) == "hmac-sha256(" \o sec \o "," \o body \o ")"

verifySignature(sec, signature, body) ==
  LET hash == getSignature(sec, body) IN hash = signature

\* uuidv4(): the n-th value generated
Uuid(n) == "uuid-" \o ToString(n)

\* JSON.stringify of a `data` value (an object of DataValues)
StringifyData(d) == "{\"name\":\"" \o d.name \o "\"}"

\* JSON.stringify(hookData): the keys in insertion order (the spread `...data`
\* first, then id and created); a key whose value is undefined is left out.
JSONstringify(hookData) ==
  "{\"idempotency_key\":\"" \o hookData.idempotency_key \o "\""
  \o ",\"api_version\":\"" \o hookData.api_version \o "\""
  \o ",\"type\":\"" \o hookData.type \o "\""
  \o (IF IsDefined(hookData.data)
        THEN ",\"data\":" \o StringifyData(hookData.data[1])
        ELSE "")
  \o ",\"id\":\"" \o hookData.id \o "\""
  \o ",\"created\":" \o ToString(hookData.created)
  \o "}"

\* a header name that ignores the instance name
SignatureHeader_unnamed(nm) == "X-Signature"

\* `X${this.name ? `-${this.name}` : ''}-Signature`: an empty name is falsy
SignatureHeader(nm) ==
  "X" \o (IF IsDefined(nm) /\ nm[1] # "" THEN "-" \o nm[1] ELSE "") \o "-Signature"

\* Array.prototype.includes
Includes(arr, x) == \E i \in DOMAIN arr : arr[i] = x

\* a getWebhooks that forgets the filter
getWebhooks_ignoresFilter(hs, event) == hs

\* getWebhooks(event): an array (even an empty one) is truthy
getWebhooks(hs, event) ==
  SelectSeq(hs, LAMBDA webhook :
                  IF IsDefined(webhook.events)
                    THEN Includes(webhook.events[1], event)
                    ELSE TRUE)


\* ------------------------------------------------------------- constructor
\* the state after `new WebhookClient(props)`: hooks = [] and mode = 'sandbox'
\* are the defaults of the destructured parameter
Constructed ==
  /\ props \in PropsSet
  /\ api_version = props.api_version
  /\ hooks = (IF IsDefined(props.hooks) THEN props.hooks[1] ELSE <<>>)
  /\ secret = props.secret
  /\ mode = (IF IsDefined(props.mode) THEN props.mode[1] ELSE "sandbox")
  /\ name = props.name
  /\ internalEvent = <<>>
  /\ uuidCount = 0
  /\ fetchCalls = <<>>
  /\ calls = <<>>
  /\ clock = 1000
  /\ exited = FALSE

\* one object, and a caller that makes MaxOps calls at most
Init ==
  /\ Constructed
  /\ limit = MaxOps
  /\ other = <<>>

\* ------------------------------------------------------------------- post
\* a post that signs a second serialization, made before id and created are set
postRequest_signsOtherString(url, data, uuid, now) ==
  LET hookData == [idempotency_key |-> data.idempotency_key,
                   api_version |-> data.api_version,
                   type |-> data.type,
                   data |-> data.data,
                   id |-> uuid,
                   created |-> now]
      body == JSONstringify(hookData)
      headers == (SignatureHeader(name)
                    :> getSignature(secret, JSONstringify([hookData EXCEPT !.id = ""])))
                 @@ ("Content-Type" :> "application/json")
                 @@ ("X-Environment" :> mode)
      options == [method |-> "POST", headers |-> headers, body |-> body]
  IN [url |-> url, hookData |-> hookData, options |-> options]

\* a post that serializes the envelope, then stamps `created` on the object it
\* hands to the observers
postRequest_stampsAfterSerializing(url, data, uuid, now) ==
  LET hookData == [idempotency_key |-> data.idempotency_key,
                   api_version |-> data.api_version,
                   type |-> data.type,
                   data |-> data.data,
                   id |-> uuid,
                   created |-> now]
      body == JSONstringify([hookData EXCEPT !.created = 0])
      headers == (SignatureHeader(name) :> getSignature(secret, body))
                 @@ ("Content-Type" :> "application/json")
                 @@ ("X-Environment" :> mode)
      options == [method |-> "POST", headers |-> headers, body |-> body]
  IN [url |-> url, hookData |-> hookData, options |-> options]

\* post(url, data) up to its first suspension, `await fetch(url, options)`:
\* the envelope, its serialization, the headers and the fetch options.
\* `uuid` is the value uuidv4() returns and `now` the value of Date.now().
postRequest(url, data, uuid, now) ==
  LET hookData == [idempotency_key |-> data.idempotency_key,
                   api_version |-> data.api_version,
                   type |-> data.type,
                   data |-> data.data,
                   id |-> uuid,
                   created |-> now]
      body == JSONstringify(hookData)
      headers == (SignatureHeader(name) :> getSignature(secret, body))
                 @@ ("Content-Type" :> "application/json")
                 @@ ("X-Environment" :> mode)
      options == [method |-> "POST", headers |-> headers, body |-> body]
  IN [url |-> url, hookData |-> hookData, options |-> options]

\* what calling an observer gives back: undefined, a (pending) promise, or a throw
CallbackReturn(callback) ==
  CASE callback = "cbVoid" -> "undefined"
    [] callback = "cbAsync" -> "pending"
    [] callback = "cbThrow" -> "threw"

\* a fan-out that notifies the first observer only
MapCallbacks_firstOnly(callbacks, url, hookData, result) ==
  IF callbacks = <<>> THEN <<>>
  ELSE << [callback |-> Head(callbacks), url |-> url, body |-> hookData,
           response |-> result, promise |-> CallbackReturn(Head(callbacks))] >>

\* this.internalEvent.map(callback => callback(url, hookData, result)): the
\* observers are called in order; a throw ends the map (and the activation)
RECURSIVE MapCallbacks(_, _, _, _)
MapCallbacks(callbacks, url, hookData, result) ==
  IF callbacks = <<>> THEN <<>>
  ELSE LET r == CallbackReturn(Head(callbacks))
           call == [callback |-> Head(callbacks), url |-> url,
                    body |-> hookData, response |-> result, promise |-> r]
       IN IF r = "threw" THEN <<call>>
          ELSE <<call>> \o MapCallbacks(Tail(callbacks), url, hookData, result)

\* a combinator that settles only when an input settles: never, without inputs
PromiseAll_needsInput(prev, inputs) ==
  IF prev # "pending" THEN prev
  ELSE IF \E i \in DOMAIN inputs : inputs[i] \in {"rejected", "threw"} THEN "rejected"
  ELSE IF inputs # <<>> /\ \A i \in DOMAIN inputs : inputs[i] \in {"fulfilled", "undefined"}
    THEN "fulfilled"
  ELSE "pending"

\* a settle-all combinator: it rejects only once every input has settled
PromiseAll_allSettled(prev, inputs) ==
  IF prev # "pending" THEN prev
  ELSE IF \E i \in DOMAIN inputs : inputs[i] = "pending" THEN "pending"
  ELSE IF \E i \in DOMAIN inputs : inputs[i] \in {"rejected", "threw"} THEN "rejected"
  ELSE "fulfilled"

\* Promise.all over the given inputs (statuses; a non-promise input counts as
\* fulfilled), as a status: it rejects with the first rejection, and is
\* fulfilled once every input is.  `prev` is its status so far: a settled
\* promise stays as it is.
PromiseAll(prev, inputs) ==
  IF prev # "pending" THEN prev
  ELSE IF \E i \in DOMAIN inputs : inputs[i] \in {"rejected", "threw"} THEN "rejected"
  ELSE IF \A i \in DOMAIN inputs : inputs[i] \in {"fulfilled", "undefined"} THEN "fulfilled"
  ELSE "pending"

\* the promise an activation of the async function post returned
PostPromise(p) ==
  CASE p.pc = "returned" -> "fulfilled"
    [] p.pc = "threw" -> "rejected"
    [] OTHER -> "pending"

\* the position of an activation that has called the observers
\* (internalEvent.map, line 256): the throw of an observer is its own;
\* otherwise it is suspended at `await Promise.all(...)` (line 255), also
\* when no observer returned a promise
AfterMap(invoked) ==
  IF invoked # <<>> /\ invoked[Len(invoked)].promise = "threw" THEN "threw"
  ELSE "await Promise.all"

\* an activation that catches what its observers throw or reject with: it
\* returns once every promise they returned has settled
AfterCallbacks_ignoresFailures(invoked) ==
  IF \E k \in DOMAIN invoked : invoked[k].promise = "pending"
    THEN "await Promise.all" ELSE "returned"

\* the position of an activation suspended at `await Promise.all(...)`:
\* still there, or past it once the promise has settled
AfterCallbacks(invoked) ==
  LET all == PromiseAll("pending", [k \in DOMAIN invoked |-> invoked[k].promise])
  IN CASE all = "fulfilled" -> "returned"
       [] all = "rejected" -> "threw"
       [] OTHER -> "await Promise.all"

\* values collected last input first
PromiseAllValues_reversed(posts) ==
  [i \in DOMAIN posts |-> posts[Len(posts) + 1 - i].result[1]]

\* the values Promise.all resolves to: the inputs' values, in the inputs' order
PromiseAllValues(posts) == [i \in DOMAIN posts |-> posts[i].result[1]]

\* a trigger whose promise is left pending when an activation fails
SettleTrigger_hangsOnFailure(call, posts) ==
  LET st == PromiseAll(call.status, [i \in DOMAIN posts |-> PostPromise(posts[i])])
  IN [call EXCEPT !.posts = posts,
                  !.status = IF st = "rejected" THEN call.status ELSE st,
                  !.value = IF call.status = "pending" /\ st = "fulfilled"
                              THEN PromiseAllValues(posts) ELSE @]

\* the promise trigger returned, after its activations moved to `posts`
SettleTrigger(call, posts) ==
  LET st == PromiseAll(call.status, [i \in DOMAIN posts |-> PostPromise(posts[i])])
  IN [call EXCEPT !.posts = posts,
                  !.status = st,
                  !.value = IF call.status = "pending" /\ st = "fulfilled"
                              THEN PromiseAllValues(posts) ELSE @]


\* ---------------------------------------------------------------- actions
\* the number of calls of trigger, add and $onDone made so far
InitialHooks == IF IsDefined(props.hooks) THEN props.hooks[1] ELSE <<>>
\* (with those made on another object: its pushes are in `hooks` if that is
\* the array it holds, in its own array otherwise)
OtherPushes ==
  IF other = <<>> \/ other[1].aliased THEN 0
  ELSE Len(other[1].hooks) - Len(InitialHooks)
Ops == Len(calls) + (Len(hooks) - Len(InitialHooks)) + Len(internalEvent)
       + OtherPushes
\* Date.now(), read n times in a row: each reading is the clock's value then,
\* not before the reading before it (the program only copies the value)
DateNow(n) ==
  {times \in [1..n -> Times] :
     /\ n > 0 => times[1] >= clock
     /\ \A i \in 1..(n - 1) : times[i] <= times[i + 1]}

\* a trigger that dispatches one subscriber at a time: within the call only
\* the POST to the first matched hook is made (0: no transport call yet)
trigger_sequential(type, data) ==
  /\ ~exited
  /\ Ops < limit
  /\ Len(calls) < MaxCalls
  /\ Len(fetchCalls) + Len(getWebhooks(hooks, type)) <= MaxFetches
  /\ LET webhooks == getWebhooks(hooks, type)
         n == Len(webhooks)
     IN \E times \in DateNow(n) :
          LET reqs == [i \in 1..n |->
                         postRequest(webhooks[i].url,
                                     [idempotency_key |-> Uuid(uuidCount + 2 * i - 1),
                                      api_version |-> api_version,
                                      type |-> type,
                                      data |-> data],
                                     Uuid(uuidCount + 2 * i),
                                     times[i])]
              posts == [i \in 1..n |->
                          [url |-> reqs[i].url, hookData |-> reqs[i].hookData,
                           fetch |-> IF i = 1 THEN Len(fetchCalls) + 1 ELSE 0,
                           pc |-> "await fetch",
                           result |-> Undefined, invoked |-> <<>>]]
              call == [type |-> type, data |-> data, registry |-> hooks,
                       observers |-> Len(internalEvent),
                       posts |-> <<>>, status |-> "pending", value |-> <<>>]
          IN /\ fetchCalls' = fetchCalls \o
                                [i \in 1..(IF n > 0 THEN 1 ELSE 0) |->
                                   [url |-> reqs[i].url, options |-> reqs[i].options,
                                    promise |-> "pending", response |-> Undefined]]
             /\ uuidCount' = uuidCount + 2 * n
             /\ clock' = IF n > 0 THEN times[n] ELSE clock
             /\ calls' = Append(calls, SettleTrigger(call, posts))
  /\ UNCHANGED <<limit, exited, other, props, api_version, hooks, secret, mode, name,
                 internalEvent>>

\* trigger(type, data): getWebhooks, then post(...) for each matched hook.
\* Every post runs synchronously up to its `await fetch`, so all the fetch
\* calls are made within the call, each activation reading Date.now() in
\* its turn.  The promise returned is Promise.all of the activations'
\* promises: pending, unless there is no activation (Promise.all([]) is
\* fulfilled when it returns).  `registry` and `observers` record the
\* registry and the number of registered observers at call time (they are
\* not read by the program).
trigger(type, data) ==
  /\ ~exited
  /\ Ops < limit
  /\ Len(calls) < MaxCalls
  /\ Len(fetchCalls) + Len(getWebhooks(hooks, type)) <= MaxFetches
  /\ LET webhooks == getWebhooks(hooks, type)
         n == Len(webhooks)
     IN \E times \in DateNow(n) :
          LET reqs == [i \in 1..n |->
                         postRequest(webhooks[i].url,
                                     [idempotency_key |-> Uuid(uuidCount + 2 * i - 1),
                                      api_version |-> api_version,
                                      type |-> type,
                                      data |-> data],
                                     Uuid(uuidCount + 2 * i),
                                     times[i])]
              posts == [i \in 1..n |->
                          [url |-> reqs[i].url, hookData |-> reqs[i].hookData,
                           fetch |-> Len(fetchCalls) + i, pc |-> "await fetch",
                           result |-> Undefined, invoked |-> <<>>]]
              call == [type |-> type, data |-> data, registry |-> hooks,
                       observers |-> Len(internalEvent),
                       posts |-> <<>>, status |-> "pending", value |-> <<>>]
          IN /\ fetchCalls' = fetchCalls \o
                                [i \in 1..n |->
                                   [url |-> reqs[i].url, options |-> reqs[i].options,
                                    promise |-> "pending", response |-> Undefined]]
             /\ uuidCount' = uuidCount + 2 * n
             /\ clock' = IF n > 0 THEN times[n] ELSE clock
             /\ calls' = Append(calls, SettleTrigger(call, posts))
  /\ UNCHANGED <<limit, exited, other, props, api_version, hooks, secret, mode, name,
                 internalEvent>>

\* an add that puts the new entry in front of the registry
add_unshift(url, events) ==
  /\ ~exited
  /\ Ops < limit
  /\ hooks' = <<[url |-> url, events |-> events]>> \o hooks
  /\ UNCHANGED <<limit, clock, exited, other, props, api_version, secret, mode, name,
                 internalEvent, uuidCount, fetchCalls, calls>>

\* add(url, events): this.hooks.push({url, events})
add(url, events) ==
  /\ ~exited
  /\ Ops < limit
  /\ hooks' = Append(hooks, [url |-> url, events |-> events])
  /\ UNCHANGED <<limit, clock, exited, other, props, api_version, secret, mode, name,
                 internalEvent, uuidCount, fetchCalls, calls>>

\* $onDone(callback): this.internalEvent.push(callback)
onDone(callback) ==
  /\ ~exited
  /\ Ops < limit
  /\ internalEvent' = Append(internalEvent, callback)
  /\ UNCHANGED <<limit, clock, exited, other, props, api_version, hooks, secret, mode,
                 name, uuidCount, fetchCalls, calls>>

\* a resume that takes a response whose status is not 2xx for a failure
FetchResolves_rejectsNon2xx(c, i, response) ==
  /\ ~exited
  /\ calls[c].posts[i].pc = "await fetch"
  /\ LET p == calls[c].posts[i]
         ok == response.status >= 200 /\ response.status < 300
         invoked == IF ok THEN MapCallbacks(internalEvent, p.url, p.hookData, response)
                    ELSE <<>>
         q == [p EXCEPT !.result = Some(response),
                        !.invoked = invoked,
                        !.pc = IF ok THEN AfterMap(invoked) ELSE "threw"]
     IN /\ fetchCalls' = [fetchCalls EXCEPT ![p.fetch].promise = "fulfilled",
                                            ![p.fetch].response = Some(response)]
        /\ calls' = [calls EXCEPT ![c].posts[i] = q]
  /\ UNCHANGED <<limit, clock, exited, other, props, api_version, hooks, secret, mode,
                 name, internalEvent, uuidCount>>

\* a resume that drops the response of a delivery whose trigger call has
\* already rejected: the observers are not told
FetchResolves_skipsWhenRejected(c, i, response) ==
  /\ ~exited
  /\ calls[c].posts[i].pc = "await fetch"
  /\ LET p == calls[c].posts[i]
         invoked == IF calls[c].status = "rejected" THEN <<>>
                    ELSE MapCallbacks(internalEvent, p.url, p.hookData, response)
         q == [p EXCEPT !.result = Some(response),
                        !.invoked = invoked,
                        !.pc = AfterMap(invoked)]
     IN /\ fetchCalls' = [fetchCalls EXCEPT ![p.fetch].promise = "fulfilled",
                                            ![p.fetch].response = Some(response)]
        /\ calls' = [calls EXCEPT ![c].posts[i] = q]
  /\ UNCHANGED <<limit, clock, exited, other, props, api_version, hooks, secret, mode,
                 name, internalEvent, uuidCount>>

\* a resume that calls the observers that were registered when trigger was
\* called
FetchResolves_usesSnapshot(c, i, response) ==
  /\ ~exited
  /\ calls[c].posts[i].pc = "await fetch"
  /\ LET p == calls[c].posts[i]
         invoked == MapCallbacks(SubSeq(internalEvent, 1, calls[c].observers),
                                 p.url, p.hookData, response)
         q == [p EXCEPT !.result = Some(response),
                        !.invoked = invoked,
                        !.pc = AfterMap(invoked)]
     IN /\ fetchCalls' = [fetchCalls EXCEPT ![p.fetch].promise = "fulfilled",
                                            ![p.fetch].response = Some(response)]
        /\ calls' = [calls EXCEPT ![c].posts[i] = q]
  /\ UNCHANGED <<limit, clock, exited, other, props, api_version, hooks, secret, mode,
                 name, internalEvent, uuidCount>>

\* The transport call of activation i of call c resolves to `response`, and
\* post resumes after `await fetch` (line 253): it calls the observers
\* registered now, one after the other, and suspends at `await
\* Promise.all(...)` (line 255), unless one of them threw, which rejects the
\* promise of post.
FetchResolves(c, i, response) ==
  /\ ~exited
  /\ calls[c].posts[i].pc = "await fetch"
  /\ LET p == calls[c].posts[i]
         invoked == MapCallbacks(internalEvent, p.url, p.hookData, response)
         q == [p EXCEPT !.result = Some(response),
                        !.invoked = invoked,
                        !.pc = AfterMap(invoked)]
     IN /\ fetchCalls' = [fetchCalls EXCEPT ![p.fetch].promise = "fulfilled",
                                            ![p.fetch].response = Some(response)]
        /\ calls' = [calls EXCEPT ![c].posts[i] = q]
  /\ UNCHANGED <<limit, clock, exited, other, props, api_version, hooks, secret, mode,
                 name, internalEvent, uuidCount>>

\* a rejection handler that fetches again
FetchRejects_retries(c, i) ==
  /\ ~exited
  /\ calls[c].posts[i].pc = "await fetch"
  /\ LET p == calls[c].posts[i]
         q == [p EXCEPT !.fetch = Len(fetchCalls) + 1]
     IN /\ fetchCalls' = Append([fetchCalls EXCEPT ![p.fetch].promise = "rejected"],
                                [fetchCalls[p.fetch] EXCEPT !.promise = "pending"])
        /\ calls' = [calls EXCEPT ![c].posts[i] = q]
  /\ UNCHANGED <<limit, clock, exited, other, props, api_version, hooks, secret, mode,
                 name, internalEvent, uuidCount>>

\* The transport call of activation i of call c rejects: `await fetch` throws
\* and nothing catches it, so the promise of post is rejected.
FetchRejects(c, i) ==
  /\ ~exited
  /\ calls[c].posts[i].pc = "await fetch"
  /\ LET p == calls[c].posts[i]
         q == [p EXCEPT !.pc = "threw"]
     IN /\ fetchCalls' = [fetchCalls EXCEPT ![p.fetch].promise = "rejected"]
        /\ calls' = [calls EXCEPT ![c].posts[i] = q]
  /\ UNCHANGED <<limit, clock, exited, other, props, api_version, hooks, secret, mode,
                 name, internalEvent, uuidCount>>

\* The promise observer k returned for activation i of call c settles.
CallbackSettles(c, i, k, outcome) ==
  /\ ~exited
  /\ calls[c].posts[i].invoked[k].promise = "pending"
  /\ calls' = [calls EXCEPT ![c].posts[i].invoked[k].promise = outcome]
  /\ UNCHANGED <<limit, clock, exited, other, props, api_version, hooks, secret, mode,
                 name, internalEvent, uuidCount, fetchCalls>>

\* Activation i of call c resumes after `await Promise.all(...)` (line 255),
\* in a later turn of the job queue than the one that called the observers:
\* it returns the response (line 259), or throws if an observer's promise
\* was rejected.
PostResumes(c, i) ==
  /\ ~exited
  /\ calls[c].posts[i].pc = "await Promise.all"
  /\ AfterCallbacks(calls[c].posts[i].invoked) # "await Promise.all"
  /\ calls' = [calls EXCEPT
                 ![c].posts[i].pc = AfterCallbacks(calls[c].posts[i].invoked)]
  /\ UNCHANGED <<limit, clock, exited, other, props, api_version, hooks, secret, mode,
                 name, internalEvent, uuidCount, fetchCalls>>

\* The promise trigger call c returned settles (Promise.all, line 176), in a
\* later turn than the one that settled the promise of an activation.
TriggerSettles(c) ==
  /\ ~exited
  /\ calls[c].status = "pending"
  /\ SettleTrigger(calls[c], calls[c].posts).status # "pending"
  /\ calls' = [calls EXCEPT ![c] = SettleTrigger(@, @.posts)]
  /\ UNCHANGED <<limit, clock, exited, other, props, api_version, hooks, secret, mode,
                 name, internalEvent, uuidCount, fetchCalls>>

\* a continuation of the program is ready to run: an activation of post can
\* resume after its `await Promise.all`, the promise of a trigger call can
\* settle
PostReady ==
  \E c \in DOMAIN calls : \E i \in DOMAIN calls[c].posts :
    /\ calls[c].posts[i].pc = "await Promise.all"
    /\ AfterCallbacks(calls[c].posts[i].invoked) # "await Promise.all"
TriggerReady(c) ==
  /\ calls[c].status = "pending"
  /\ SettleTrigger(calls[c], calls[c].posts).status # "pending"
JobReady == PostReady \/ \E c \in DOMAIN calls : TriggerReady(c)

\* A rejected promise that nothing in the program handles: the promise an
\* observer returned for an activation whose map threw at a later observer
\* (line 256: Promise.all is never called on it), or the promise trigger
\* returned (the program puts no handler on it; its caller may).
UnhandledRejection ==
  \/ \E c \in DOMAIN calls : \E i \in DOMAIN calls[c].posts :
       \E k \in DOMAIN calls[c].posts[i].invoked :
         /\ calls[c].posts[i].invoked[k].promise = "rejected"
         /\ calls[c].posts[i].invoked[Len(calls[c].posts[i].invoked)].promise = "threw"
  \/ \E c \in DOMAIN calls : calls[c].status = "rejected"

\* The process ends on an unhandled rejection (the default of Node.js; not
\* under --unhandled-rejections=warn, and not when the caller or the
\* observer handles the promise, in which cases this step is not taken).
\* The promise was rejected in an earlier step (CallbackSettles,
\* TriggerSettles); the runtime looks for unhandled rejections once the
\* jobs that are queued have run.  Nothing runs afterwards.
ProcessExits ==
  /\ ~exited
  /\ UnhandledRejection
  /\ ~JobReady
  /\ exited' = TRUE
  /\ UNCHANGED <<limit, clock, other, props, api_version, hooks, secret, mode,
                 name, internalEvent, uuidCount, fetchCalls, calls>>

Next ==
  \/ \E type \in EventTypes, data \in DataValues : trigger(type, data)
  \/ \E url \in Urls, events \in EventFilters : add(url, events)
  \/ \E callback \in Callbacks : onDone(callback)
  \/ \E c \in DOMAIN calls : \E i \in DOMAIN calls[c].posts :
       \E response \in Responses : FetchResolves(c, i, response)
  \/ \E c \in DOMAIN calls : \E i \in DOMAIN calls[c].posts : FetchRejects(c, i)
  \/ \E c \in DOMAIN calls : \E i \in DOMAIN calls[c].posts :
       \E k \in DOMAIN calls[c].posts[i].invoked :
         \E outcome \in {"fulfilled", "rejected"} : CallbackSettles(c, i, k, outcome)
  \/ \E c \in DOMAIN calls : \E i \in DOMAIN calls[c].posts : PostResumes(c, i)
  \/ \E c \in DOMAIN calls : TriggerSettles(c)
  \/ ProcessExits

Spec == Init /\ [][Next]_vars

\* ---------------------------------------------------------------- fairness
\* the most activations a trigger call can have: one per entry of the
\* registry, which holds the initial hooks (two at most in PropsSet) and the
\* entries added before the call
MaxPosts == MaxOps + 1

\* no transport call issued is pending; no promise an observer returned is
\* pending
TransportSettled == \A f \in DOMAIN fetchCalls : fetchCalls[f].promise # "pending"
ObserversCompleted ==
  \A c \in DOMAIN calls : \A i \in DOMAIN calls[c].posts :
    \A k \in DOMAIN calls[c].posts[i].invoked :
      calls[c].posts[i].invoked[k].promise # "pending"

\* a continuation that is ready runs (the job queue is served)
SomeJobRuns ==
  \E c \in 1..MaxCalls :
    /\ c \in DOMAIN calls
    /\ \/ TriggerSettles(c)
       \/ \E i \in 1..MaxPosts : i \in DOMAIN calls[c].posts /\ PostResumes(c, i)

\* The assumption: every transport call issued settles at last and every
\* observer invoked completes at last.  A settled one stays settled and the
\* caller makes finitely many calls, so this is to say that again and again
\* none is pending.  A run in which the process ends while a transport call
\* or an observer is pending does not satisfy it.  Besides, the job queue
\* is served.
Fairness ==
  /\ []<>TransportSettled
  /\ []<>ObserversCompleted
  /\ WF_vars(SomeJobRuns)

\* an object constructed with at most MaxFairHooks initial hooks (the
\* registry still grows by add), and a caller that makes MaxFairOps calls
\* at most
InitFair ==
  /\ Constructed
  /\ Len(hooks) <= MaxFairHooks
  /\ limit = MaxFairOps
  /\ other = <<>>

\* the arguments of the caller and the responses under this specification
FairTypes == {"did_something"}
FairData == {Undefined}
FairHooks == {[url |-> "https://myhook.com", events |-> Undefined]}
FairResponses == {[status |-> 200]}

\* the steps of Next, with these arguments and responses
NextFair ==
  \/ \E type \in FairTypes, data \in FairData : trigger(type, data)
  \/ \E hook \in FairHooks : add(hook.url, hook.events)
  \/ \E callback \in Callbacks : onDone(callback)
  \/ \E c \in DOMAIN calls : \E i \in DOMAIN calls[c].posts :
       \E response \in FairResponses : FetchResolves(c, i, response)
  \/ \E c \in DOMAIN calls : \E i \in DOMAIN calls[c].posts : FetchRejects(c, i)
  \/ \E c \in DOMAIN calls : \E i \in DOMAIN calls[c].posts :
       \E k \in DOMAIN calls[c].posts[i].invoked :
         \E outcome \in {"fulfilled", "rejected"} : CallbackSettles(c, i, k, outcome)
  \/ \E c \in DOMAIN calls : \E i \in DOMAIN calls[c].posts : PostResumes(c, i)
  \/ \E c \in DOMAIN calls : TriggerSettles(c)
  \/ ProcessExits

FairSpec == InitFair /\ [][NextFair]_vars /\ Fairness

\* ------------------------------------------------------------ two objects
\* the state after `new WebhookClient({...props, hooks: h})` twice: the
\* constructor stores the array it is given (this.hooks = hooks), so the
\* second object holds the array of the first when the caller passed the
\* same list to both (aliased), and an array of its own when the caller
\* passed another list with the same entries or, without hooks, left both
\* to the default [] of the parameter, which is a new array at each call
InitTwo ==
  /\ Constructed
  /\ Len(hooks) <= MaxTwoHooks
  /\ limit = MaxOps
  /\ \E aliased \in (IF IsDefined(props.hooks) THEN BOOLEAN ELSE {FALSE}) :
       other = << [aliased |-> aliased,
                   hooks |-> IF aliased THEN <<>> ELSE InitialHooks,
                   adds |-> 0] >>

\* add(url, events) on the second object: this.hooks.push({url, events}),
\* where this.hooks is the array the object was constructed with
otherAdd(url, events) ==
  /\ ~exited
  /\ Ops < limit
  /\ other # <<>>
  /\ IF other[1].aliased
       THEN /\ hooks' = Append(hooks, [url |-> url, events |-> events])
            /\ other' = [other EXCEPT ![1].adds = @ + 1]
       ELSE /\ hooks' = hooks
            /\ other' = [other EXCEPT
                           ![1].hooks = Append(@, [url |-> url, events |-> events]),
                           ![1].adds = @ + 1]
  /\ UNCHANGED <<limit, clock, exited, props, api_version, secret, mode, name,
                 internalEvent, uuidCount, fetchCalls, calls>>

NextTwo ==
  \/ Next
  \/ \E url \in Urls, events \in EventFilters : otherAdd(url, events)

SpecTwo == InitTwo /\ [][NextTwo]_vars


\* ------------------------------------------------------------ properties
\* the deliveries: activation i of post made by trigger call c
Deliveries == UNION {{<<c, i>> : i \in DOMAIN calls[c].posts} : c \in DOMAIN calls}
Post(d) == calls[d[1]].posts[d[2]]
\* the transport call a delivery made
Fetch(d) == fetchCalls[Post(d).fetch]
\* every call of fetch was made by exactly one delivery
EachFetchByOneDelivery ==
  /\ \A d \in Deliveries : Post(d).fetch \in DOMAIN fetchCalls
  /\ \A k \in DOMAIN fetchCalls :
       Cardinality({d \in Deliveries : Post(d).fetch = k}) = 1
\* a registry entry is interested in event e
Interested(hook, e) ==
  \/ hook.events = Undefined
  \/ /\ hook.events # Undefined
     /\ e \in {hook.events[1][j] : j \in DOMAIN hook.events[1]}
\* the entries of a registry interested in e
InterestedIn(registry, e) == {j \in DOMAIN registry : Interested(registry[j], e)}

\* C1: a trigger(e, data) call POSTs to a URL u as many times as the registry
\* held, at call time, entries with that url whose filter is absent or
\* contains e (duplicates each count); an entry whose filter does not contain
\* e gets no POST and no observer invocation.
C1_FanOutMatchesRegistry ==
  /\ EachFetchByOneDelivery
  /\ \A c \in DOMAIN calls : \A u \in Urls :
       /\ Cardinality({i \in DOMAIN calls[c].posts : Fetch(<<c, i>>).url = u})
            = Cardinality({j \in InterestedIn(calls[c].registry, calls[c].type) :
                             calls[c].registry[j].url = u})
       /\ \A i \in DOMAIN calls[c].posts :
            /\ Fetch(<<c, i>>).options.method = "POST"
            /\ \A k \in DOMAIN calls[c].posts[i].invoked :
                 calls[c].posts[i].invoked[k].url = Fetch(<<c, i>>).url

\* a call that found two interested entries with one url and an entry that is
\* not interested
C1_Witness ==
  \E c \in DOMAIN calls :
    LET r == calls[c].registry
    IN /\ \E j1, j2 \in InterestedIn(r, calls[c].type) : j1 # j2 /\ r[j1].url = r[j2].url
       /\ \E j \in DOMAIN r : j \notin InterestedIn(r, calls[c].type)
       /\ Len(calls[c].posts) = 2

\* C2: a trigger call that no registry entry is interested in resolves to the
\* empty list, makes no transport call and invokes no observer.
C2_NoMatchResolvesEmpty ==
  /\ EachFetchByOneDelivery
  /\ \A c \in DOMAIN calls :
       InterestedIn(calls[c].registry, calls[c].type) = {}
         => /\ calls[c].status = "fulfilled"
            /\ calls[c].value = <<>>
            /\ calls[c].posts = <<>>

\* such a call, with a non-empty registry and an observer registered
C2_Witness ==
  \E c \in DOMAIN calls :
    /\ InterestedIn(calls[c].registry, calls[c].type) = {}
    /\ calls[c].registry # <<>>
    /\ calls[c].observers > 0
    /\ calls[c].status = "fulfilled"

\* C3: all the envelopes of one trigger call carry the same idempotency_key.
C3_SameIdempotencyKey ==
  \A c \in DOMAIN calls : \A i, j \in DOMAIN calls[c].posts :
    calls[c].posts[i].hookData.idempotency_key
      = calls[c].posts[j].hookData.idempotency_key


\* the observers of a delivery are called in registration order, each at most
\* once, with the delivery's url, envelope and response, and only once the
\* transport call has resolved
InvokedInOrderAfterResponse(d) ==
  LET p == Post(d)
  IN /\ Len(p.invoked) <= Len(internalEvent)
     /\ \A k \in DOMAIN p.invoked :
          /\ p.invoked[k].callback = internalEvent[k]
          /\ p.invoked[k].url = Fetch(d).url
          /\ p.invoked[k].body = p.hookData
          /\ Fetch(d).promise = "fulfilled"
          /\ Some(p.invoked[k].response) = Fetch(d).response

\* C4 as stated: for a delivery whose transport call resolved, every observer
\* registered before the trigger call is invoked exactly once with (url,
\* envelope, response), and never before the transport call resolved.
C4_EveryObserverInvoked ==
  \A d \in Deliveries :
    /\ InvokedInOrderAfterResponse(d)
    /\ Fetch(d).promise = "fulfilled" => Len(Post(d).invoked) >= calls[d[1]].observers

\* C4 amended: ... is invoked exactly once unless an observer registered
\* before it threw synchronously for that delivery, which ends the fan-out;
\* in that case it is not invoked at all.
C4_ObserversInvokedUpToThrow ==
  \A d \in Deliveries :
    /\ InvokedInOrderAfterResponse(d)
    /\ Fetch(d).promise = "fulfilled" =>
         \/ Len(Post(d).invoked) >= calls[d[1]].observers
         \/ /\ Post(d).invoked # <<>>
            /\ Post(d).invoked[Len(Post(d).invoked)].promise = "threw"

\* a resolved delivery with two observers registered before the call, both invoked
C4_Witness ==
  \E d \in Deliveries :
    /\ Fetch(d).promise = "fulfilled"
    /\ calls[d[1]].observers = 2
    /\ Len(Post(d).invoked) = 2

\* the headers of a POST other than Content-Type and X-Environment
SignatureHeaders(k) ==
  DOMAIN fetchCalls[k].options.headers \ {"Content-Type", "X-Environment"}

\* C5: the signature header of every POST is sign(secret, b) for the very
\* string b sent as the body, so verifySignature(secret, header, body) holds.
C5_SignatureOverSentBody ==
  \A k \in DOMAIN fetchCalls :
    /\ SignatureHeaders(k) # {}
    /\ \A h \in SignatureHeaders(k) :
         /\ fetchCalls[k].options.headers[h]
              = getSignature(props.secret, fetchCalls[k].options.body)
         /\ verifySignature(props.secret, fetchCalls[k].options.headers[h],
                            fetchCalls[k].options.body)

\* two POSTs with different bodies, made by an instance with a name
C5_Witness ==
  /\ Len(fetchCalls) >= 2
  /\ IsDefined(props.name)
  /\ props.name[1] # ""
  /\ \E k \in DOMAIN fetchCalls : fetchCalls[k].options.body # fetchCalls[1].options.body

\* the mode and the name are those the constructor was given
ConfigurationAsConstructed ==
  /\ mode = (IF props.mode = Undefined THEN "sandbox" ELSE props.mode[1])
  /\ name = props.name

\* what every POST carries besides the signature's name
EnvironmentAndOneSignature(k) ==
  /\ "X-Environment" \in DOMAIN fetchCalls[k].options.headers
  /\ fetchCalls[k].options.headers["X-Environment"]
       = (IF props.mode = Undefined THEN "sandbox" ELSE props.mode[1])
  /\ Cardinality(SignatureHeaders(k)) = 1

\* C6 as stated: X-Environment is the configured mode (sandbox by default);
\* the one signature header is X-Signature when no name was configured and
\* X-<name>-Signature when one was; neither changes after construction.
C6_HeaderNamedAfterAnyName ==
  /\ ConfigurationAsConstructed
  /\ \A k \in DOMAIN fetchCalls :
       /\ EnvironmentAndOneSignature(k)
       /\ SignatureHeaders(k) =
            {IF props.name = Undefined THEN "X-Signature"
             ELSE "X-" \o props.name[1] \o "-Signature"}

\* C6 amended: ... X-Signature when no name was configured or the configured
\* name is the empty string, and X-<name>-Signature otherwise.
C6_HeaderNamedAfterNonEmptyName ==
  /\ ConfigurationAsConstructed
  /\ \A k \in DOMAIN fetchCalls :
       /\ EnvironmentAndOneSignature(k)
       /\ SignatureHeaders(k) =
            {IF props.name = Undefined THEN "X-Signature"
             ELSE IF props.name[1] = "" THEN "X-Signature"
             ELSE "X-" \o props.name[1] \o "-Signature"}

\* a POST of an instance named EatingDots, made after an add and an $onDone
C6_Witness ==
  /\ fetchCalls # <<>>
  /\ props.name = Some("EatingDots")
  /\ "X-EatingDots-Signature" \in DOMAIN fetchCalls[1].options.headers
  /\ fetchCalls[1].options.headers["X-Environment"] = "production"
  /\ internalEvent # <<>>
  /\ Len(hooks) > Len(InitialHooks)


\* C7: the envelope of every delivery of trigger(e, data) has type e, the data
\* given and the configured api_version; the body sent is the serialization
\* of that envelope, and each observer is handed that same envelope.
C7_EnvelopeSentIsEnvelopeObserved ==
  \A d \in Deliveries :
    LET p == Post(d)
    IN /\ p.hookData.type = calls[d[1]].type
       /\ p.hookData.data = calls[d[1]].data
       /\ p.hookData.api_version = props.api_version
       /\ Fetch(d).options.body = JSONstringify(p.hookData)
       /\ \A k \in DOMAIN p.invoked :
            /\ p.invoked[k].body.type = calls[d[1]].type
            /\ p.invoked[k].body.data = calls[d[1]].data
            /\ p.invoked[k].body.api_version = props.api_version
            /\ JSONstringify(p.invoked[k].body) = Fetch(d).options.body

\* an observer was handed the envelope of a delivery that carried data
C7_Witness ==
  \E d \in Deliveries :
    /\ Post(d).invoked # <<>>
    /\ IsDefined(calls[d[1]].data)
    /\ Post(d).invoked[1].body.data = Some([name |-> "John Doe"])

\* the entries of a registry interested in e, in registry order
RECURSIVE InterestedSeq(_, _)
InterestedSeq(registry, e) ==
  IF registry = <<>> THEN <<>>
  ELSE (IF Interested(Head(registry), e) THEN <<Head(registry)>> ELSE <<>>)
       \o InterestedSeq(Tail(registry), e)

\* C8: the i-th element of the list trigger resolves to is the response of
\* the delivery to the i-th matched subscriber in registry order, whatever
\* the order in which the responses arrived.
C8_ResponsesInMatchOrder ==
  \A c \in DOMAIN calls :
    calls[c].status = "fulfilled" =>
      LET matched == InterestedSeq(calls[c].registry, calls[c].type)
      IN /\ Len(calls[c].value) = Len(matched)
         /\ Len(calls[c].posts) = Len(matched)
         /\ \A i \in DOMAIN matched :
              /\ Fetch(<<c, i>>).url = matched[i].url
              /\ Some(calls[c].value[i]) = Fetch(<<c, i>>).response

\* a call resolved to two different responses, the second of which arrived
\* first: before the observer that the first delivery notified was registered
C8_Witness ==
  \E c \in DOMAIN calls :
    /\ calls[c].status = "fulfilled"
    /\ Len(calls[c].value) = 2
    /\ calls[c].value[1] # calls[c].value[2]
    /\ calls[c].posts[2].invoked = <<>>
    /\ calls[c].posts[1].invoked # <<>>

\* C9 as stated: a trigger call does not settle while a delivery it
\* dispatched is pending.
C9_SettlesAfterAllDeliveries ==
  \A c \in DOMAIN calls :
    calls[c].status # "pending" =>
      \A i \in DOMAIN calls[c].posts : PostPromise(calls[c].posts[i]) # "pending"

\* the promises of the activations of call c
PostPromises(c) == [i \in DOMAIN calls[c].posts |-> PostPromise(calls[c].posts[i])]

\* C9 amended: a trigger call does not resolve while a delivery it dispatched
\* is pending; it rejects as soon as one of its deliveries has rejected (its
\* rejection is then the next thing that happens to it), whether or not the
\* others have settled; while no delivery has rejected, a delivery that
\* stays pending keeps the call pending.
C9_RejectsAtFirstRejection ==
  /\ [](\A c \in DOMAIN calls :
          LET st == PostPromises(c)
          IN /\ calls[c].status = "fulfilled" => \A i \in DOMAIN st : st[i] = "fulfilled"
             /\ calls[c].status = "rejected" => \E i \in DOMAIN st : st[i] = "rejected"
             /\ (calls[c].status = "pending" /\ \E i \in DOMAIN st : st[i] = "rejected")
                  => ENABLED TriggerSettles(c)
             /\ (/\ \E i \in DOMAIN st : st[i] = "pending"
                 /\ \A i \in DOMAIN st : st[i] # "rejected")
                  => calls[c].status = "pending" /\ ~ENABLED TriggerSettles(c))
  /\ [][\A c \in DOMAIN calls :
         (calls[c].status = "pending" /\ calls'[c].status # "pending") =>
           calls'[c].status =
             (IF \E i \in DOMAIN calls[c].posts : PostPromises(c)[i] = "rejected"
                THEN "rejected" ELSE "fulfilled")]_vars

\* a call rejected by a transport rejection while another of its deliveries is
\* awaiting its response
C9_Witness ==
  \E c \in DOMAIN calls : \E i, j \in DOMAIN calls[c].posts :
    /\ calls[c].status = "rejected"
    /\ Fetch(<<c, i>>).promise = "rejected"
    /\ calls[c].posts[j].pc = "await fetch"

\* C10: when the transport call of a delivery rejects, no observer is invoked
\* for it, the trigger call rejects (it is rejected, or about to be; there
\* is no partial list) and no second POST is made for it.
C10_RejectionNoObserverNoRetry ==
  /\ EachFetchByOneDelivery
  /\ \A d \in Deliveries :
       Fetch(d).promise = "rejected" =>
         /\ Post(d).invoked = <<>>
         /\ PostPromise(Post(d)) = "rejected"
         /\ \/ calls[d[1]].status = "rejected"
            \/ calls[d[1]].status = "pending" /\ ENABLED TriggerSettles(d[1])
         /\ calls[d[1]].value = <<>>

\* a rejected delivery of a call with an observer registered, whose other
\* delivery resolved
C10_Witness ==
  \E d \in Deliveries : \E j \in DOMAIN calls[d[1]].posts :
    /\ Fetch(d).promise = "rejected"
    /\ internalEvent # <<>>
    /\ calls[d[1]].observers > 0
    /\ Fetch(<<d[1], j>>).promise = "fulfilled"


\* an observer invocation that failed: it threw, or the promise it returned
\* was rejected
Failed(invocation) == invocation.promise \in {"threw", "rejected"}
\* the statuses outside 200..299
Non2xx(response) == response.status < 200 \/ response.status >= 300

\* C11: a response is handled the same whatever its status: for a non-2xx
\* response the observers are invoked with that response (all those
\* registered before the call, up to a synchronous throw), the delivery does
\* not fail unless an observer fails (it has returned, or is about to, when
\* none has and none is pending), and the response is, at its position, in
\* the list a resolved trigger call gives; only a failed delivery makes the
\* call reject.
C11_Non2xxHandledAsSuccess ==
  \A d \in Deliveries :
    (Fetch(d).promise = "fulfilled" /\ Non2xx(Fetch(d).response[1])) =>
      LET p == Post(d)
      IN /\ \A k \in DOMAIN p.invoked : Some(p.invoked[k].response) = Fetch(d).response
         /\ \/ Len(p.invoked) >= calls[d[1]].observers
            \/ p.invoked # <<>> /\ Failed(p.invoked[Len(p.invoked)])
         /\ PostPromise(p) = "rejected" => \E k \in DOMAIN p.invoked : Failed(p.invoked[k])
         /\ (\A k \in DOMAIN p.invoked : p.invoked[k].promise \in {"undefined", "fulfilled"})
              => \/ PostPromise(p) = "fulfilled"
                 \/ p.pc = "await Promise.all" /\ ENABLED PostResumes(d[1], d[2])
         /\ calls[d[1]].status = "fulfilled" => Some(calls[d[1]].value[d[2]]) = Fetch(d).response
         /\ calls[d[1]].status = "rejected" =>
              \E i \in DOMAIN calls[d[1]].posts :
                \/ Fetch(<<d[1], i>>).promise = "rejected"
                \/ \E k \in DOMAIN calls[d[1]].posts[i].invoked :
                     Failed(calls[d[1]].posts[i].invoked[k])

\* a call resolved to a list holding a 500 response that an observer was
\* handed
C11_Witness ==
  \E d \in Deliveries :
    /\ Fetch(d).response = Some([status |-> 500])
    /\ calls[d[1]].observers > 0
    /\ Post(d).invoked # <<>>
    /\ Post(d).invoked[1].response = [status |-> 500]
    /\ calls[d[1]].status = "fulfilled"
    /\ calls[d[1]].value[d[2]] = [status |-> 500]


\* the observers of a list that a fan-out calls: those up to and including
\* the first one that throws
RECURSIVE UpToThrow(_)
UpToThrow(callbacks) ==
  IF callbacks = <<>> THEN <<>>
  ELSE IF CallbackReturn(Head(callbacks)) = "threw" THEN <<Head(callbacks)>>
  ELSE <<Head(callbacks)>> \o UpToThrow(Tail(callbacks))

\* the observers invoked so far for an activation, in invocation order
InvokedCallbacks(p) == [k \in DOMAIN p.invoked |-> p.invoked[k].callback]

\* C12 as stated: within one delivery observer k+1 is not invoked until the
\* awaitable observer k returned has completed, so no invoked observer that
\* has a successor left a pending promise.
C12_NextObserverWaitsForPrevious ==
  \A d \in Deliveries :
    \A k \in DOMAIN Post(d).invoked :
      (k + 1) \in DOMAIN Post(d).invoked => Post(d).invoked[k].promise # "pending"


\* C13: the POSTs of one trigger call are all issued within the call, one
\* per matched subscriber, before any of their responses is awaited: in the
\* step of the call every activation has made its transport call, which is
\* pending, and is suspended at its `await fetch`; no transport call is made
\* in any other step, so none waits for a response or an observer.
C13_AllPostsIssuedWithinCall ==
  [][/\ Len(calls') > Len(calls) =>
          LET call == calls'[Len(calls')]
          IN /\ Len(call.posts) = Len(InterestedSeq(hooks, call.type))
             /\ Len(fetchCalls') = Len(fetchCalls) + Len(call.posts)
             /\ \A i \in DOMAIN call.posts :
                  /\ call.posts[i].fetch = Len(fetchCalls) + i
                  /\ call.posts[i].fetch \in DOMAIN fetchCalls'
                  /\ fetchCalls'[call.posts[i].fetch].promise = "pending"
                  /\ fetchCalls'[call.posts[i].fetch].url = call.posts[i].url
                  /\ call.posts[i].pc = "await fetch"
     /\ Len(calls') = Len(calls) => Len(fetchCalls') = Len(fetchCalls)]_vars

\* a call with two deliveries: the second has its response and has returned
\* while the transport call of the first is still pending
C13_Witness ==
  \E c \in DOMAIN calls :
    /\ Len(calls[c].posts) = 2
    /\ Fetch(<<c, 1>>).promise = "pending"
    /\ Fetch(<<c, 2>>).promise = "fulfilled"
    /\ calls[c].posts[2].pc = "returned"


\* the other deliveries of the trigger call of delivery d
Siblings(d) == {e \in Deliveries : e[1] = d[1] /\ e[2] # d[2]}

\* C14: a transport rejection for one subscriber neither cancels nor blocks
\* the other deliveries of its trigger call: in the step in which it rejects
\* the other activations are left as they are, their POSTs issued; and a
\* response that arrives for a delivery, also after a delivery of the same
\* call was rejected, is handed to the observers in that step; a response
\* that arrived before stays handed over.
C14_RejectionLeavesSiblingsRunning ==
  [][\A d \in Deliveries :
       /\ (Fetch(d).promise = "pending" /\ Fetch(d)'.promise = "rejected") =>
            \A e \in Siblings(d) :
              /\ Post(e)' = Post(e)
              /\ Fetch(e)' = Fetch(e)
              /\ Fetch(e).options.method = "POST"
       /\ (Post(d).pc = "await fetch" /\ Fetch(d)'.promise = "fulfilled") =>
            /\ InvokedCallbacks(Post(d)') = UpToThrow(internalEvent)
            /\ \A k \in DOMAIN Post(d)'.invoked :
                 Some(Post(d)'.invoked[k].response) = Fetch(d)'.response
            /\ Post(d)'.result = Fetch(d)'.response]_vars

\* a rejected call: the transport call of its first delivery rejected, the
\* second delivery got a response, which its observer was handed
C14_Witness ==
  \E c \in DOMAIN calls :
    /\ calls[c].status = "rejected"
    /\ Len(calls[c].posts) = 2
    /\ Fetch(<<c, 1>>).promise = "rejected"
    /\ Fetch(<<c, 2>>).promise = "fulfilled"
    /\ calls[c].posts[2].invoked # <<>>
    /\ calls[c].posts[2].invoked[1].promise # "threw"


\* the urls a trigger call delivers to, in delivery order
DeliveredTo(call) == [i \in DOMAIN call.posts |-> call.posts[i].url]
\* the urls of the entries of a registry interested in e, in registry order
InterestedUrls(registry, e) ==
  LET matched == InterestedSeq(registry, e)
  IN [i \in DOMAIN matched |-> matched[i].url]

\* C15: the registry is append-only and snapshotted per trigger call: a step
\* either leaves it as it is or appends exactly one entry (an add, which
\* touches nothing else); a step that makes a trigger call or registers an
\* observer leaves it unchanged; the initial hooks stay its prefix; and no
\* step, an add or an overlapping trigger call included, changes the
\* subscribers an existing call delivers to (those interested at call time)
\* or the list a settled call resolved to.
C15_RegistryAppendOnlySnapshotPerCall ==
  [][/\ \/ hooks' = hooks
        \/ /\ Len(hooks') = Len(hooks) + 1
           /\ SubSeq(hooks', 1, Len(hooks)) = hooks
           /\ hooks'[Len(hooks')] \in Hooks
           /\ calls' = calls /\ internalEvent' = internalEvent
           /\ fetchCalls' = fetchCalls
     /\ (calls' # calls \/ internalEvent' # internalEvent) => hooks' = hooks
     /\ SubSeq(hooks', 1, Len(InitialHooks)) = InitialHooks
     /\ Len(calls') >= Len(calls)
     /\ \A c \in DOMAIN calls :
          /\ DeliveredTo(calls'[c]) = DeliveredTo(calls[c])
          /\ DeliveredTo(calls[c]) = InterestedUrls(calls[c].registry, calls[c].type)
          /\ calls'[c].registry = calls[c].registry
          /\ calls[c].status # "pending" =>
               /\ calls'[c].status = calls[c].status
               /\ calls'[c].value = calls[c].value
          /\ calls'[c].status = "fulfilled" =>
               Len(calls'[c].value) = Len(InterestedSeq(calls[c].registry, calls[c].type))
     /\ Len(calls') > Len(calls) =>
          calls'[Len(calls')].registry = hooks]_vars

\* two overlapping trigger calls of one event with an add in between: the
\* first, still pending, delivers to fewer subscribers than the second
C15_Witness ==
  /\ Len(calls) = 2
  /\ calls[1].type = calls[2].type
  /\ calls[1].status = "pending" /\ calls[2].status = "pending"
  /\ Len(calls[2].registry) = Len(calls[1].registry) + 1
  /\ hooks = calls[2].registry
  /\ Len(calls[1].posts) > 0
  /\ Len(calls[2].posts) = Len(calls[1].posts) + 1


\* the adds made on the second object
OtherAdds == IF other = <<>> THEN 0 ELSE other[1].adds

\* C16 as stated: two objects share no state, however they were constructed:
\* an add on one never changes the subscribers a trigger on the other would
\* deliver to, for any event.
C16_AddOnOtherInstanceUnseen ==
  [][OtherAdds' # OtherAdds =>
       \A e \in EventTypes : getWebhooks(hooks', e) = getWebhooks(hooks, e)]_vars


\* C17: an observer failure propagates: once an observer invoked for a
\* delivery has thrown, or the promise it returned is rejected, the delivery
\* fails (its activation of post has thrown, or is about to at its `await
\* Promise.all`, although its transport call resolved) and its trigger call
\* rejects (it is rejected, or about to be once the activation has thrown),
\* and is never resolved to a list.
C17_ObserverFailureRejectsCall ==
  \A d \in Deliveries :
    (\E k \in DOMAIN Post(d).invoked : Failed(Post(d).invoked[k])) =>
      /\ Fetch(d).promise = "fulfilled"
      /\ \/ Post(d).pc = "threw"
         \/ Post(d).pc = "await Promise.all" /\ ENABLED PostResumes(d[1], d[2])
      /\ Post(d).pc = "threw" =>
           \/ calls[d[1]].status = "rejected"
           \/ calls[d[1]].status = "pending" /\ ENABLED TriggerSettles(d[1])
      /\ calls[d[1]].status # "fulfilled"
      /\ calls[d[1]].value = <<>>

\* a delivery with a 200 response whose trigger call is rejected because the
\* promise its observer returned was rejected
C17_Witness ==
  \E d \in Deliveries :
    /\ Fetch(d).response = Some([status |-> 200])
    /\ Len(calls[d[1]].posts) = 1
    /\ Len(Post(d).invoked) = 1
    /\ Post(d).invoked[1].promise = "rejected"
    /\ calls[d[1]].status = "rejected"


\* every delivery of call c and every observer invocation made for it has
\* completed without failure
AllCompleted(c) ==
  \A i \in DOMAIN calls[c].posts :
    /\ Fetch(<<c, i>>).promise = "fulfilled"
    /\ \A k \in DOMAIN calls[c].posts[i].invoked :
         calls[c].posts[i].invoked[k].promise \in {"undefined", "fulfilled"}
\* a delivery of call c or an observer invocation made for it has failed
SomeFailed(c) ==
  \E i \in DOMAIN calls[c].posts :
    \/ Fetch(<<c, i>>).promise = "rejected"
    \/ \E k \in DOMAIN calls[c].posts[i].invoked : Failed(calls[c].posts[i].invoked[k])
\* a call is resolved only when all has completed without failure, and
\* rejected only when something has failed
SettledAsCompleted ==
  \A c \in DOMAIN calls :
    /\ calls[c].status = "fulfilled" => AllCompleted(c)
    /\ calls[c].status = "rejected" => SomeFailed(c)

\* C18: if every transport call issued settles at last and every observer
\* invoked completes at last (Fairness), every trigger call settles at last;
\* and it is resolved exactly when all its deliveries and all their observer
\* invocations have completed without failure (resolved only then, rejected
\* only when one of them has failed, and settled at last).
C18_EveryCallSettles ==
  /\ []SettledAsCompleted
  /\ \A c \in 1..MaxCalls :
       (c \in DOMAIN calls) ~> (c \in DOMAIN calls /\ calls[c].status # "pending")

\* a call resolved after its two deliveries got their responses and the
\* promises the observer returned for them were fulfilled
C18_Witness ==
  \E c \in DOMAIN calls :
    /\ calls[c].status = "fulfilled"
    /\ Len(calls[c].posts) = 2
    /\ \A i \in DOMAIN calls[c].posts :
         /\ calls[c].posts[i].invoked # <<>>
         /\ calls[c].posts[i].invoked[1].callback = "cbAsync"
         /\ calls[c].posts[i].invoked[1].promise = "fulfilled"


\* the observers registered since the trigger call of delivery d was made
RegisteredSince(d) ==
  SubSeq(internalEvent, calls[d[1]].observers + 1, Len(internalEvent))

\* C19: the observer list is read when the response of a delivery arrives:
\* the observers called in that step are those registered by then, the ones
\* registered after the trigger call included (up to one that throws);
\* registering an observer or adding a subscriber does by itself nothing to
\* a call made before, and the subscribers of a call stay those interested
\* when it was made.
C19_ObserversReadAtResponse ==
  [][\A d \in Deliveries :
       /\ (Post(d).pc = "await fetch" /\ Fetch(d)'.promise = "fulfilled") =>
            /\ Len(Post(d)'.invoked) <= Len(internalEvent)
            /\ \A k \in 1..Len(internalEvent) :
                 \/ /\ k \in DOMAIN Post(d)'.invoked
                    /\ Post(d)'.invoked[k].callback = internalEvent[k]
                 \/ \E j \in 1..(k - 1) : CallbackReturn(internalEvent[j]) = "threw"
       /\ (internalEvent' # internalEvent \/ hooks' # hooks) =>
            /\ calls' = calls
            /\ fetchCalls' = fetchCalls
       /\ Len(calls'[d[1]].posts)
            = Len(InterestedSeq(calls[d[1]].registry, calls[d[1]].type))]_vars

\* a delivery for which an observer registered after the trigger call was
\* invoked, while an interested subscriber added after the call got no POST
C19_Witness ==
  \E d \in Deliveries :
    /\ calls[d[1]].observers = 0
    /\ Post(d).invoked # <<>>
    /\ RegisteredSince(d) # <<>>
    /\ Post(d).invoked[1].callback = RegisteredSince(d)[1]
    /\ Len(calls) = 1
    /\ Len(hooks) > Len(calls[d[1]].registry)
    /\ Interested(hooks[Len(hooks)], calls[d[1]].type)
    /\ Len(fetchCalls) = Len(InterestedSeq(calls[d[1]].registry, calls[d[1]].type))

=============================================================================
